---- MODULE Spec2Model ----
(***************************************************************************)
(* A model of the Panchanga engine of src/app.py: the Panchanga            *)
(* derivation (tithi, nakshatra, pada, yoga, karana), the time conversion  *)
(* (UT rollover, Julian Day, vaara, samvat), the Julian Day round trip,    *)
(* the sunrise/sunset solver and the event transition solver.              *)
(*                                                                         *)
(* Python floats are modelled in fixed point.  Each part of the engine has *)
(* a specification of its own over the variables it uses; the variables of *)
(* the other parts stay at their initial values.                           *)
(***************************************************************************)
EXTENDS Integers, Sequences, FiniteSets, TLC

VARIABLES
    \* Panchanga derivation (app.py 233-273)
    runs, nirayana_sun, nirayana_moon, long_diff, tithi_index, paksha, num,
    nak_index, pada, yoga_index, karana_index, karana_name, karana_seen,
    \* Time conversion, vaara and samvat (app.py 200-228, 275, 306)
    input_date, hour_local, min_local, utc_offset, year, month, day, ut_hour,
    jd, wd, samvat, tpc,
    \* Julian Day round trip (app.py 21-60)
    moment, jd_rt, dt_utc, rpc,
    \* Sunrise, sunset and the muhurta block (app.py 112-126, 280, 310-342)
    sun_date, lat, long, sun_timezone, sun_wd, current_time, sun_raised,
    sunrise, sunset, eqtime, decl_deg, part, current_chogh, rahu_start,
    yama_start, gulika_start, muhurta,
    \* Event transition solver (app.py 138-174)
    start_jd, day_offset, s_candidate, e_candidate, window, kpc,
    jd_start, jd_end, target_angle, a, b, fa, fb, fa_call, fb_call, iter,
    ret, fpc

deriveVars == <<runs, nirayana_sun, nirayana_moon, long_diff, tithi_index,
                paksha, num, nak_index, pada, yoga_index, karana_index,
                karana_name, karana_seen>>

timeVars == <<input_date, hour_local, min_local, utc_offset, year, month,
              day, ut_hour, jd, wd, samvat, tpc>>

roundVars == <<moment, jd_rt, dt_utc, rpc>>

sunVars == <<sun_date, lat, long, sun_timezone, sun_wd, current_time,
             sun_raised, sunrise, sunset, eqtime, decl_deg, part,
             current_chogh, rahu_start, yama_start, gulika_start, muhurta>>

solveVars == <<start_jd, day_offset, s_candidate, e_candidate, window, kpc,
               jd_start, jd_end, target_angle, a, b, fa, fb, fa_call,
               fb_call, iter, ret, fpc>>

vars == <<deriveVars, timeVars, roundVars, sunVars, solveVars>>

-----------------------------------------------------------------------------
(* The variables of the parts a specification does not run.                *)

NoDate == [year |-> 0, month |-> 0, day |-> 0]

NoJd == [day2 |-> 0, f31 |-> 0]

NoMoment == [year |-> 0, month |-> 0, day |-> 0,
             hour |-> 0, minute |-> 0, second |-> 0]

TimeIdle ==
    /\ input_date = NoDate
    /\ hour_local = 0
    /\ min_local = 0
    /\ utc_offset = 0
    /\ year = 0
    /\ month = 0
    /\ day = 0
    /\ ut_hour = 0
    /\ jd = NoJd
    /\ wd = 0
    /\ samvat = 0
    /\ tpc = "idle"

RoundIdle ==
    /\ moment = NoMoment
    /\ jd_rt = NoJd
    /\ dt_utc = NoMoment
    /\ rpc = "idle"

SunInitVars ==
    /\ sun_raised = "pending"
    /\ sunrise = 0
    /\ sunset = 0
    /\ eqtime = 0
    /\ decl_deg = 0
    /\ part = 0
    /\ current_chogh = ""
    /\ rahu_start = 0
    /\ yama_start = 0
    /\ gulika_start = 0
    /\ muhurta = "pending"

SunIdle ==
    /\ sun_date = NoDate
    /\ lat = 0
    /\ long = 0
    /\ sun_timezone = 0
    /\ sun_wd = 0
    /\ current_time = 0
    /\ SunInitVars

SolveIdle ==
    /\ start_jd = 0
    /\ day_offset = 0
    /\ s_candidate = 0
    /\ e_candidate = 0
    /\ window = [found |-> FALSE, s |-> 0, e |-> 0]
    /\ kpc = "idle"
    /\ jd_start = 0
    /\ jd_end = 0
    /\ target_angle = 0
    /\ a = 0
    /\ b = 0
    /\ fa = 0
    /\ fb = 0
    /\ fa_call = 0
    /\ fb_call = 0
    /\ iter = 0
    /\ ret = 0
    /\ fpc = "idle"

-----------------------------------------------------------------------------
(* Panchanga derivation.  Angles are integers in units of 1/AngleRes       *)
(* degree; every quotient below is the exact rational one.                 *)

\* Resolution of the longitudes fed to the derivation: units per degree.
AngleRes == 2

\* Spacing, in degrees, of the sidereal Sun longitudes of the sweeps.
SunStep == 45

Circle == 360 * AngleRes

\* mod360(x) = (x % 360 + 360) % 360
mod360u(x, c) == ((x % c) + c) % c

mod360(x) == mod360u(x, Circle)

\* tithi_index = floor(long_diff / 12); 0 becomes 30, anything else +1
calc_tithi_index(ld) ==
    LET t == ld \div (12 * AngleRes)
    IN  IF t = 0 THEN 30 ELSE t + 1

calc_paksha(ti) == IF ti <= 15 THEN "Shukla Paksha" ELSE "Krishna Paksha"

calc_num(ti) == IF ti <= 15 THEN ti ELSE ti - 15

\* nak_index = floor(nirayana_moon / (360 / 27)) + 1
calc_nak_index(moon) == (27 * moon) \div Circle + 1

\* nak_pos = nirayana_moon - (nak_index - 1) * (360 / 27), here times 27
calc_nak_pos27(moon, nak) == 27 * moon - (nak - 1) * Circle

\* pada = floor(nak_pos / (360 / 108)) + 1
calc_pada(moon, nak) == (4 * calc_nak_pos27(moon, nak)) \div Circle + 1

\* yoga_index = floor((nirayana_sun + nirayana_moon) / (360 / 27)) % 27 + 1
calc_yoga_index_nomod(sun, moon) == (27 * (sun + moon)) \div Circle + 1

calc_yoga_index(sun, moon) == (((27 * (sun + moon)) \div Circle) % 27) + 1

\* karana_index = floor(long_diff / 6) % 60 + 1
calc_karana_index(ld) == ((ld \div (6 * AngleRes)) % 60) + 1

movable == <<"Bava", "Balava", "Kaulava", "Taitila", "Gara", "Vanija", "Vishti">>

calc_karana_name_shifted(k) ==
    IF k = 1 THEN "Kimstughna"
    ELSE IF k = 58 THEN "Shakuni"
    ELSE IF k = 59 THEN "Chatushpada"
    ELSE IF k = 60 THEN "Naga"
    ELSE movable[((k - 1) % 7) + 1]

calc_karana_name(k) ==
    IF k = 1 THEN "Kimstughna"
    ELSE IF k = 58 THEN "Shakuni"
    ELSE IF k = 59 THEN "Chatushpada"
    ELSE IF k = 60 THEN "Naga"
    ELSE movable[((k - 2) % 7) + 1]

KaranaNames == {movable[i] : i \in 1..7} \cup
               {"Kimstughna", "Shakuni", "Chatushpada", "Naga"}

SunInputs == {s * SunStep * AngleRes : s \in 0..((360 \div SunStep) - 1)}
             \cup {1, Circle - 1}

DeriveIdle ==
    /\ runs = 0
    /\ nirayana_sun = 0
    /\ nirayana_moon = 0
    /\ long_diff = 0
    /\ tithi_index = 0
    /\ paksha = ""
    /\ num = 0
    /\ nak_index = 0
    /\ pada = 0
    /\ yoga_index = 0
    /\ karana_index = 0
    /\ karana_name = ""
    /\ karana_seen = [n \in KaranaNames |-> {}]

InitDerive ==
    /\ TimeIdle
    /\ RoundIdle
    /\ SunIdle
    /\ SolveIdle
    /\ runs = 0
    /\ nirayana_sun \in SunInputs
    /\ nirayana_moon = 0
    /\ long_diff = 0
    /\ tithi_index = 0
    /\ paksha = ""
    /\ num = 0
    /\ nak_index = 0
    /\ pada = 0
    /\ yoga_index = 0
    /\ karana_index = 0
    /\ karana_name = ""
    /\ karana_seen = [n \in KaranaNames |-> {}]

\* One press of "Compute Panchanga" (app.py 233-273) for the next sidereal
\* Moon longitude of a sweep over the circle; the Sun stays where it is.
\* karana_seen records, per karana name, the half-tithi segments named so.
ComputePanchanga ==
    /\ runs < Circle
    /\ runs' = runs + 1
    /\ nirayana_moon' = runs
    /\ nirayana_sun' = nirayana_sun
    /\ long_diff' = mod360(nirayana_moon' - nirayana_sun')
    /\ tithi_index' = calc_tithi_index(long_diff')
    /\ paksha' = calc_paksha(tithi_index')
    /\ num' = calc_num(tithi_index')
    /\ nak_index' = calc_nak_index(nirayana_moon')
    /\ pada' = calc_pada(nirayana_moon', nak_index')
    /\ yoga_index' = calc_yoga_index(nirayana_sun', nirayana_moon')
    /\ karana_index' = calc_karana_index(long_diff')
    /\ karana_name' = calc_karana_name(karana_index')
    /\ karana_seen' = [karana_seen EXCEPT ![karana_name'] =
                          @ \cup {long_diff' \div (6 * AngleRes)}]
    /\ UNCHANGED <<timeVars, roundVars, sunVars, solveVars>>

NextDerive == ComputePanchanga

SpecDerive == InitDerive /\ [][NextDerive]_vars

-----------------------------------------------------------------------------
(* Julian Days.  A Julian Day of 1800..2100 lies in [2^21, 2^22), where a   *)
(* Python float is a multiple of 2^-31 day: jd is held as the record       *)
(* [day2, f31] standing for day2/2 + f31/2^31, the day part in half days   *)
(* and the time of day rounded to the nearest 2^-31 day, as the float      *)
(* addition in greg_to_jd rounds it.                                       *)

\* The float nearest to t/86400 day (t seconds, 0 <= t < 86400) on the
\* 2^-31 grid: 2^31/86400 = 2^24/675 = 24855 + 91/675.
round_f31(t) == t * 24855 + (2 * 91 * t + 675) \div 1350

trunc_f31(t) == t * 24855 + (91 * t) \div 675

\* greg_to_jd(year, month, day, ut_hour, ut_min, ut_sec); ut_hour is given
\* in minutes (it is hour_local - utc_offset, a fraction of an hour).
greg_to_jd(y0, m0, d, ut_hour60, ut_min, ut_sec) ==
    LET y == IF m0 <= 2 THEN y0 - 1 ELSE y0
        m == IF m0 <= 2 THEN m0 + 12 ELSE m0
        ga == y \div 100
        gb == ga \div 4
        c == 2 - ga + gb
        e == (1461 * (y + 4716)) \div 4
        f == (306001 * (m + 1)) \div 10000
        t == ut_hour60 * 60 + ut_min * 60 + ut_sec
    IN  [day2 |-> 2 * (c + d + e + f) - 3049 + 2 * (t \div 86400),
         f31  |-> round_f31(t % 86400)]

\* The civil moment of day number Z and day fraction f31/2^31
\* (jd_to_datetime_utc after "jd += 0.5; Z = int(jd); F = jd - Z").
civil_of(Z, f31) ==
    LET alpha == (4 * Z - 7468865) \div 146097
        A == IF Z < 2299161 THEN Z ELSE Z + 1 + alpha - (alpha \div 4)
        B == A + 1524
        C == (20 * B - 2442) \div 7305
        D == (1461 * C) \div 4
        E == ((B - D) * 10000) \div 306001
        mon == IF E < 14 THEN E - 1 ELSE E - 13
        yr == IF mon > 2 THEN C - 4716 ELSE C - 4715
        day_floor == B - D - ((306001 * E) \div 10000)
        \* hour = int(day_frac * 24), in units of 2^-28 hour
        h3 == 3 * (f31 % (2^28))
        hr == 3 * (f31 \div (2^28)) + h3 \div (2^28)
        hrem == h3 % (2^28)
        \* minute = int((day_frac * 24 - hour) * 60), in units of 2^-26 min
        m15 == 15 * (hrem % (2^26))
        mi == 15 * (hrem \div (2^26)) + m15 \div (2^26)
        mrem == m15 % (2^26)
        \* second = int(((day_frac * 24 - hour) * 60 - minute) * 60)
        sec == (15 * mrem) \div (2^24)
    IN  [year |-> yr, month |-> mon, day |-> day_floor,
         hour |-> hr, minute |-> mi, second |-> sec]

jd_to_datetime_utc_floor(j) == civil_of((j.day2 - 1) \div 2, j.f31)

jd_to_datetime_utc(j) == civil_of((j.day2 + 1) \div 2, j.f31)

\* floor(jd + 1.5)
floor_jd_plus_1_5(j) == (j.day2 + 3) \div 2

floor_jd_plus_1(j) ==
    (j.day2 + 2) \div 2 + (IF (j.day2 + 2) % 2 = 1 /\ j.f31 >= 2^30
                            THEN 1 ELSE 0)

\* A week day that changes at noon UT: floor(jd + 1) % 7
calc_wd_noon(j) == floor_jd_plus_1(j) % 7

\* wd = math.floor(jd + 1.5) % 7
calc_wd(j) == floor_jd_plus_1_5(j) % 7

vaara_names == <<"Ravivaara", "Somavaara", "Mangalavaara", "Budhavaara",
                 "Guruvaara", "Shukravaara", "Shanivaara">>

\* jd + n whole days
jd_plus_days(j, n) == [j EXCEPT !.day2 = @ + 2 * n]

is_leap_year(y) ==
    IF y % 4 # 0 THEN FALSE
    ELSE IF y % 100 # 0 THEN TRUE
    ELSE y % 400 = 0

\* The calendar of datetime and timedelta(days=1)
days_in_month(y, m) ==
    IF m = 2 THEN (IF is_leap_year(y) THEN 29 ELSE 28)
    ELSE IF m \in {4, 6, 9, 11} THEN 30 ELSE 31

date_minus_day(dt) ==
    IF dt.day > 1 THEN [dt EXCEPT !.day = @ - 1]
    ELSE IF dt.month > 1
         THEN [year |-> dt.year, month |-> dt.month - 1,
               day |-> days_in_month(dt.year, dt.month - 1)]
         ELSE [year |-> dt.year - 1, month |-> 12, day |-> 31]

date_plus_day(dt) ==
    IF dt.day < days_in_month(dt.year, dt.month)
    THEN [dt EXCEPT !.day = @ + 1]
    ELSE IF dt.month < 12
         THEN [year |-> dt.year, month |-> dt.month + 1, day |-> 1]
         ELSE [year |-> dt.year + 1, month |-> 1, day |-> 1]

-----------------------------------------------------------------------------
(* Time conversion of the "Compute Panchanga" handler.                     *)

\* Years either side of 2000 the input dates are drawn from.
YearSpan == 1

InputYears == {1900, 2100} \cup (2000 - YearSpan)..(2000 + YearSpan)

InputDates ==
    {dt \in [year : InputYears, month : {1, 2, 3, 7, 12},
             day : {1, 2, 28, 29, 30, 31}] :
        dt.day <= days_in_month(dt.year, dt.month)}

InputHours == {0, 5, 12, 18, 23}

InputMinutes == {0, 29, 30, 59}

\* UTC offsets of the time zone database, in minutes
InputOffsets == {-720, -210, 0, 330, 345, 840}

InitTime ==
    /\ DeriveIdle
    /\ RoundIdle
    /\ SunIdle
    /\ SolveIdle
    /\ input_date \in InputDates
    /\ hour_local \in InputHours
    /\ min_local \in InputMinutes
    /\ utc_offset \in InputOffsets
    /\ year = 0
    /\ month = 0
    /\ day = 0
    /\ ut_hour = 0
    /\ jd = NoJd
    /\ wd = 0
    /\ samvat = 0
    /\ tpc = "input"

\* ut_hour = hour_local - utc_offset and the day rollover (app.py 210-227);
\* ut_hour is in minutes.
raw_ut_hour(h, off) == h * 60 - off

rolled_ut_hour(uh) ==
    IF uh < 0 THEN uh + 1440
    ELSE IF uh >= 1440 THEN uh - 1440
    ELSE uh

\* A rollover that only ever moves the date forward
rolled_date_forward(dt, uh) ==
    IF uh >= 1440 THEN date_plus_day(dt) ELSE dt

rolled_date(dt, uh) ==
    IF uh < 0 THEN date_minus_day(dt)
    ELSE IF uh >= 1440 THEN date_plus_day(dt)
    ELSE dt

\* samvat = year - 78, on the year variable the rollover has reassigned
calc_samvat(y) == y - 78

\* app.py 200-228, 275, 306
ComputeTime ==
    /\ tpc = "input"
    /\ LET uh == raw_ut_hour(hour_local, utc_offset)
           dt == rolled_date(input_date, uh)
       IN  /\ ut_hour' = rolled_ut_hour(uh)
           /\ year' = dt.year
           /\ month' = dt.month
           /\ day' = dt.day
    /\ jd' = greg_to_jd(year', month', day', ut_hour', min_local, 0)
    /\ wd' = calc_wd(jd')
    /\ samvat' = calc_samvat(year')
    /\ tpc' = "done"
    /\ UNCHANGED <<input_date, hour_local, min_local, utc_offset>>
    /\ UNCHANGED <<deriveVars, roundVars, sunVars, solveVars>>

NextTime == ComputeTime

SpecTime == InitTime /\ [][NextTime]_vars

-----------------------------------------------------------------------------
(* The round trip greg_to_jd, jd_to_datetime_utc on UTC civil moments.     *)

RoundYears == {1800, 1899, 1900, 2000, 2024, 2100}

RoundDays == {1, 15, 28, 29, 30, 31}

RoundHours == {0, 1, 11, 12, 23}

RoundMinutes == {0, 1, 30, 59}

RoundSeconds == {0, 1, 30, 59}

Moments ==
    {m \in [year : RoundYears, month : 1..12, day : RoundDays,
            hour : RoundHours, minute : RoundMinutes, second : RoundSeconds] :
        m.day <= days_in_month(m.year, m.month)}

InitRound ==
    /\ DeriveIdle
    /\ TimeIdle
    /\ SunIdle
    /\ SolveIdle
    /\ moment \in Moments
    /\ jd_rt = NoJd
    /\ dt_utc = NoMoment
    /\ rpc = "moment"

ToJulianDay ==
    /\ rpc = "moment"
    /\ jd_rt' = greg_to_jd(moment.year, moment.month, moment.day,
                           moment.hour * 60, moment.minute, moment.second)
    /\ rpc' = "jd"
    /\ UNCHANGED <<moment, dt_utc>>
    /\ UNCHANGED <<deriveVars, timeVars, sunVars, solveVars>>

FromJulianDay ==
    /\ rpc = "jd"
    /\ dt_utc' = jd_to_datetime_utc(jd_rt)
    /\ rpc' = "done"
    /\ UNCHANGED <<moment, jd_rt>>
    /\ UNCHANGED <<deriveVars, timeVars, sunVars, solveVars>>

NextRound == ToJulianDay \/ FromJulianDay

SpecRound == InitRound /\ [][NextRound]_vars

-----------------------------------------------------------------------------
(* Trigonometry in fixed point.  Angles are in microdegrees (1e-6 degree), *)
(* sines and cosines are scaled by 1e6: SinTab holds sin of 0..90 whole    *)
(* degrees, and sin_d interpolates linearly between them.                  *)

SinTab == <<
    0, 17452, 34899, 52336, 69756, 87156, 104528, 121869,
    139173, 156434, 173648, 190809, 207912, 224951, 241922, 258819,
    275637, 292372, 309017, 325568, 342020, 358368, 374607, 390731,
    406737, 422618, 438371, 453990, 469472, 484810, 500000, 515038,
    529919, 544639, 559193, 573576, 587785, 601815, 615661, 629320,
    642788, 656059, 669131, 681998, 694658, 707107, 719340, 731354,
    743145, 754710, 766044, 777146, 788011, 798636, 809017, 819152,
    829038, 838671, 848048, 857167, 866025, 874620, 882948, 891007,
    898794, 906308, 913545, 920505, 927184, 933580, 939693, 945519,
    951057, 956305, 961262, 965926, 970296, 974370, 978148, 981627,
    984808, 987688, 990268, 992546, 994522, 996195, 997564, 998630,
    999391, 999848, 1000000 >>

Circle6 == 360 * 1000000

\* mod360 on microdegrees
mod360_6(x) == mod360u(x, Circle6)

\* sin of an angle of the first quadrant, 0..90000 millidegrees
sin_quadrant(md) ==
    LET i == md \div 1000
        fr == md % 1000
    IN  IF fr = 0 THEN SinTab[i + 1]
        ELSE SinTab[i + 1] + ((SinTab[i + 2] - SinTab[i + 1]) * fr) \div 1000

\* sin_d(x) = math.sin(x * math.pi / 180)
sin_d(x) ==
    LET md == mod360_6(x) \div 1000
    IN  IF md <= 90000 THEN sin_quadrant(md)
        ELSE IF md <= 180000 THEN sin_quadrant(180000 - md)
        ELSE IF md <= 270000 THEN -sin_quadrant(md - 180000)
        ELSE -sin_quadrant(360000 - md)

\* cos_d(x) = math.cos(x * math.pi / 180)
cos_d(x) == sin_d(x + 90 * 1000000)

\* p * q / 1e6 for a scaled factor q, |q| <= 1e6 and |p| <= 2e6
mul6(p, q) == (p * (q \div 1000)) \div 1000 + (p * (q % 1000)) \div 1000000

\* p * 1e6 / q for 0 < q <= 2e6 and |p| <= 2e6
div6(p, q) == ((p * 1000) \div q) * 1000 + (((p * 1000) % q) * 1000) \div q

\* math.acos of x (scaled by 1e6, -1e6..1e6), in millidegrees
acos_md(x) ==
    IF x >= 1000000 THEN 0
    ELSE IF x <= -1000000 THEN 180000
    ELSE LET i == CHOOSE k \in 0..179 :
                    /\ cos_d(k * 1000000) >= x
                    /\ x > cos_d((k + 1) * 1000000)
             hi == cos_d(i * 1000000)
             lo == cos_d((i + 1) * 1000000)
         IN  i * 1000 + ((hi - x) * 1000) \div (hi - lo)

-----------------------------------------------------------------------------
(* Sunrise and sunset (get_sunrise_sunset) and the muhurta block of the    *)
(* handler that is computed from them.  Latitude and longitude are in      *)
(* millidegrees, times of day in thousandths of a minute.                  *)

days_before_month == <<0, 31, 59, 90, 120, 151, 181, 212, 243, 273, 304, 334>>

\* day_of_year(year, month, day)
day_of_year(y, m, d) ==
    days_before_month[m] + d + (IF m > 2 /\ is_leap_year(y) THEN 1 ELSE 0)

\* gamma = 2 * pi / days_in_year * (dy - 1), in microdegrees
calc_gamma(y, m, d) ==
    LET days_in_year == IF is_leap_year(y) THEN 366 ELSE 365
    IN  (Circle6 \div days_in_year) * (day_of_year(y, m, d) - 1)

\* eqtime, in thousandths of a minute
calc_eqtime(g) ==
    LET inner == 75 + mul6(1868, cos_d(g)) - mul6(32077, sin_d(g))
                    - mul6(14615, cos_d(2 * g)) - mul6(40849, sin_d(2 * g))
    IN  (2292 * inner) \div 10000

\* decl, in microradians
calc_decl(g) ==
    6918 - mul6(399912, cos_d(g)) + mul6(70257, sin_d(g))
         - mul6(6758, cos_d(2 * g)) + mul6(907, sin_d(2 * g))
         - mul6(2697, cos_d(3 * g)) + mul6(1480, sin_d(3 * g))

\* decl_deg = decl * 180 / pi, in microdegrees (180/pi = 57.2958)
calc_decl_deg(decl) == 57 * decl + (2958 * decl) \div 10000

\* The argument of math.acos in get_sunrise_sunset, scaled by 1e6:
\* cos_zen / (cos_d(lat) * cos_d(decl_deg)) - tan(lat) * tan(decl)
acos_argument(la, dd) ==
    LET cos_zen == cos_d(90833000)
        cl == cos_d(la * 1000)
        cd == cos_d(dd)
        tan_lat4 == div6(sin_d(la * 1000), cl) \div 100
        tan_decl4 == div6(sin_d(dd), cd) \div 100
    IN  div6(cos_zen, mul6(cl, cd)) - ((tan_lat4 * tan_decl4) \div 10000) * 100

\* math.acos raises ValueError ("math domain error") outside [-1, 1]
acos_in_domain(x) == x >= -1000000 /\ x <= 1000000

\* (sunrise_local, sunset_local, eqtime, decl_deg), or the exception
get_sunrise_sunset(y, m, d, la, lo, timezone) ==
    LET g == calc_gamma(y, m, d)
        eqt == calc_eqtime(g)
        dd == calc_decl_deg(calc_decl(g))
        x == acos_argument(la, dd)
        ha == acos_md(x)
        sunrise_utc_min == 720000 - 4 * (lo + ha) - eqt
        sunset_utc_min == 720000 - 4 * (lo - ha) - eqt
    IN  IF acos_in_domain(x)
        THEN [raised |-> "none",
              sunrise |-> (sunrise_utc_min + timezone * 1000) % 1440000,
              sunset |-> (sunset_utc_min + timezone * 1000) % 1440000,
              eqtime |-> eqt, decl_deg |-> dd]
        ELSE [raised |-> "ValueError", sunrise |-> 0, sunset |-> 0,
              eqtime |-> 0, decl_deg |-> 0]

rulers == <<"Sun", "Venus", "Mercury", "Moon", "Saturn", "Jupiter", "Mars">>

chogh_start_index == <<0, 3, 6, 2, 5, 1, 4>>

chogh_types == [r \in {rulers[i] : i \in 1..7} |->
    CASE r = "Sun" -> "Udveg" [] r = "Venus" -> "Char"
      [] r = "Mercury" -> "Labh" [] r = "Moon" -> "Amrit"
      [] r = "Saturn" -> "Kala" [] r = "Jupiter" -> "Shubh"
      [] r = "Mars" -> "Rog"]

rahu_parts == <<8, 2, 7, 5, 6, 4, 3>>

yama_parts == <<5, 4, 3, 2, 1, 7, 6>>

gulika_parts == <<7, 6, 5, 4, 3, 2, 1>>

\* The last choghadiya slot i of 0..7 that holds the current time, if any
calc_current_chogh(sr, prt, w, now) ==
    LET hits == {i \in 0..7 : sr + i * prt <= now /\ now < sr + (i + 1) * prt}
    IN  IF hits = {} THEN ""
        ELSE LET i == CHOOSE k \in hits : \A o \in hits : o <= k
             IN  chogh_types[rulers[((chogh_start_index[w + 1] + i) % 7) + 1]]

SunDates == {[year |-> 1993, month |-> 7, day |-> 12],
             [year |-> 2023, month |-> 3, day |-> 20],
             [year |-> 2023, month |-> 6, day |-> 21],
             [year |-> 2023, month |-> 12, day |-> 21],
             [year |-> 2024, month |-> 12, day |-> 21]}

\* The latitudes of the runs: every LatStep degrees from the equator to
\* 80 degrees north and south, and the default location of the form.
LatStep == 10

Latitudes == {1000 * LatStep * k : k \in (-(80 \div LatStep))..(80 \div LatStep)}
             \cup {13320}

Longitudes == {75770, -122420}

InitSun ==
    /\ DeriveIdle
    /\ TimeIdle
    /\ RoundIdle
    /\ SolveIdle
    /\ sun_date \in SunDates
    /\ lat \in Latitudes
    /\ long \in Longitudes
    /\ sun_timezone \in {0, 330}
    /\ sun_wd \in {0, 3}
    /\ current_time \in {446000, 746000}
    /\ SunInitVars

\* app.py 280: the call succeeds and the handler goes on to the choghadiya
\* and the Rahu, Yamaganda and Gulika windows (app.py 310-342).
SunriseSunset ==
    /\ sun_raised = "pending"
    /\ LET r == get_sunrise_sunset(sun_date.year, sun_date.month,
                                   sun_date.day, lat, long, sun_timezone)
           day_length == (r.sunset - r.sunrise) % 1440000
           prt == day_length \div 8
       IN  /\ r.raised = "none"
           /\ sun_raised' = "none"
           /\ sunrise' = r.sunrise
           /\ sunset' = r.sunset
           /\ eqtime' = r.eqtime
           /\ decl_deg' = r.decl_deg
           /\ part' = prt
           /\ current_chogh' =
                 calc_current_chogh(r.sunrise, prt, sun_wd, current_time)
           /\ rahu_start' = r.sunrise + (rahu_parts[sun_wd + 1] - 1) * prt
           /\ yama_start' = r.sunrise + (yama_parts[sun_wd + 1] - 1) * prt
           /\ gulika_start' = r.sunrise + (gulika_parts[sun_wd + 1] - 1) * prt
           /\ muhurta' = "computed"
    /\ UNCHANGED <<sun_date, lat, long, sun_timezone, sun_wd, current_time>>
    /\ UNCHANGED <<deriveVars, timeVars, roundVars, solveVars>>

\* app.py 280: math.acos raises ValueError inside get_sunrise_sunset; the
\* handler catches nothing, so the run ends there and nothing after line 280
\* is computed or shown.
SunriseSunsetRaises ==
    /\ sun_raised = "pending"
    /\ LET r == get_sunrise_sunset(sun_date.year, sun_date.month,
                                   sun_date.day, lat, long, sun_timezone)
       IN  /\ r.raised # "none"
           /\ sun_raised' = r.raised
    /\ muhurta' = "not reached"
    /\ UNCHANGED <<sunrise, sunset, eqtime, decl_deg, part, current_chogh,
                   rahu_start, yama_start, gulika_start>>
    /\ UNCHANGED <<sun_date, lat, long, sun_timezone, sun_wd, current_time>>
    /\ UNCHANGED <<deriveVars, timeVars, roundVars, solveVars>>

NextSun == SunriseSunset \/ SunriseSunsetRaises

SpecSun == InitSun /\ [][NextSun]_vars

-----------------------------------------------------------------------------
(* Celestial positions.  In the solver a Julian Day is held as the number  *)
(* of 1/32768 days since 2451545.0 (so d = jd - 2451545.0 is the Julian    *)
(* Day itself); the brackets the solver makes from Julian Days on that     *)
(* grid halve exactly, here as in Python floats.  T = d / 36525, so a      *)
(* coefficient c of T is the rate c / 36525 per day, kept in microdegrees. *)

DayUnits == 2 ^ 15

RECURSIVE times_mod360(_, _)
\* (rate * n) mod 360 degrees for n >= 0 whole days, by doubling
times_mod360(rate, n) ==
    IF n = 0 THEN 0
    ELSE (2 * times_mod360(rate, n \div 2) + (n % 2) * rate) % Circle6

\* rate * r / 32768 for the fraction r of a day, 0 <= r < 32768
times_fraction(rate, r) ==
    (rate * (r \div 1024)) \div 32
    + (rate * ((r \div 32) % 32)) \div 1024
    + (rate * (r % 32)) \div 32768

\* mod360(c0 + c1 * T), c0 in microdegrees, rate = c1 / 36525 per day
linear_mod360(c0, rate, d) ==
    LET n == d \div DayUnits
        whole == IF n >= 0 THEN times_mod360(rate, n)
                 ELSE Circle6 - times_mod360(rate, -n)
    IN  mod360_6(c0 + whole + times_fraction(rate, d % DayUnits))

\* c * T and c * T^2 for a small coefficient c (microdegrees)
times_T(c, d) == (c * (d \div DayUnits)) \div 36525

times_T2(c, d) == (times_T(c, d) * (d \div DayUnits)) \div 36525

\* get_sun_long(d); the T^3 term of M is below a microdegree
get_sun_long(d) ==
    LET M == mod360_6(linear_mod360(357529100, 985600, d) - times_T2(156, d))
        L0 == mod360_6(linear_mod360(280466450, 985647, d) + times_T2(303, d))
        DL == mul6(1914600 - times_T(4817, d) - times_T2(14, d), sin_d(M))
              + mul6(19993 - times_T(101, d), sin_d(2 * M))
              + mul6(290, sin_d(3 * M))
    IN  mod360_6(L0 + DL)

\* coefficient (arcseconds) times a sine, in thousandths of an arcsecond
pert_term(coef, s) == coef * (s \div 1000) + (coef * (s % 1000)) \div 1000

\* get_moon_long(d)
get_moon_long(d) ==
    LET L0 == linear_mod360(218316170, 13176396, d)
        M == linear_mod360(134962920, 13064993, d)
        Msun == linear_mod360(357525430, 985600, d)
        F == linear_mod360(93272830, 13229350, d)
        D == linear_mod360(297850270, 12190749, d)
        pert == pert_term(22640, sin_d(M))
              + pert_term(769, sin_d(2 * M))
              + pert_term(-4586, sin_d(M - 2 * D))
              + pert_term(2370, sin_d(2 * D))
              + pert_term(-668, sin_d(Msun))
              + pert_term(-412, sin_d(2 * F))
              + pert_term(-125, sin_d(D))
              + pert_term(-212, sin_d(2 * M - 2 * D))
              + pert_term(-206, sin_d(M + Msun - 2 * D))
              + pert_term(192, sin_d(M + 2 * D))
              + pert_term(-165, sin_d(Msun - 2 * D))
              + pert_term(148, sin_d(L0 - Msun))
              + pert_term(-110, sin_d(M + Msun))
              + pert_term(-55, sin_d(2 * F - 2 * D))
    IN  mod360_6(L0 + (10 * pert) \div 36)

\* get_ayanamsa(d) = 23.853 + (d / 365.25) * (50.2388 / 3600):
\* 38.207 microdegrees a day
get_ayanamsa(d) ==
    23853000 + (38207 * (d \div DayUnits)) \div 1000
             + (38 * (d % DayUnits)) \div DayUnits

\* long_diff_at_jd(jd)
long_diff_at_jd(j) ==
    LET d == j
        sun_l == get_sun_long(d)
        moon_l == get_moon_long(d)
        ay == get_ayanamsa(d)
        n_sun == mod360_6(sun_l - ay)
        n_moon == mod360_6(moon_l - ay)
    IN  mod360_6(n_moon - n_sun)

-----------------------------------------------------------------------------
(* The event transition solver: find_transition_between, one action per    *)
(* pass of its loop, and find_kalashtami_window around it.                 *)

\* (long_diff_at_jd(x) - target_angle + 540) % 360 - 180, in microdegrees
residual(j, target) ==
    ((long_diff_at_jd(j) - target + 540 * 1000000) % Circle6) - 180 * 1000000

abs(x) == IF x < 0 THEN -x ELSE x

\* abs(f) < 1e-9: a thousandth of a microdegree, so the residual is 0
below_1e_9(f) == abs(f) = 0

\* abs(f) < 1e-6
below_1e_6(f) == abs(f) < 1

\* x * y <= 0, by the signs of the factors
product_not_positive(x, y) == (x <= 0 /\ y >= 0) \/ (x >= 0 /\ y <= 0)

\* mid = (a + b) / 2.0
midpoint_low(x, y) == x

midpoint(x, y) == (x + y) \div 2

\* (b - a) * 24 * 60 < tol_minutes, with tol_minutes = 0.5
within_tol_hours(x, y) == (y - x) * 24 * 2 < DayUnits

within_tol(x, y) == (y - x) * 24 * 60 * 2 < DayUnits

\* for _ in range(60)
MaxIter == 60

\* find_kalashtami_window(jd, search_days=60)
search_days == 60

start_angle == 264 * 1000000

end_angle == 276 * 1000000

\* The first Julian Day of the runs: 2449181.0, noon UT of 12 July 1993
FirstStart == -2364 * DayUnits

\* The days after FirstStart that the runs start from
StartDays == 12

\* Start times: noon UT, and 18:45 UT, of each day
WindowStarts == {FirstStart + i * DayUnits + t : i \in 0..(StartDays - 1),
                                                  t \in {0, 9216}}

\* Direct calls of find_transition_between: a bracket of 0 or 2 days and a
\* tithi boundary as the target
DirectStarts == {FirstStart + 3 * i * DayUnits : i \in 0..((StartDays - 1) \div 3)}

DirectTargets == {12 * k * 1000000 : k \in 0..29}

\* The target angle that the separation at Julian Day j is 180 degrees ahead of
opposite_target(j) == mod360_6(long_diff_at_jd(j) - 180 * 1000000)

NoWindow == [found |-> FALSE, s |-> 0, e |-> 0]

InitSolve ==
    /\ DeriveIdle
    /\ TimeIdle
    /\ RoundIdle
    /\ SunIdle
    /\ s_candidate = 0
    /\ e_candidate = 0
    /\ window = NoWindow
    /\ day_offset = 0
    /\ a = 0
    /\ b = 0
    /\ fa = 0
    /\ fb = 0
    /\ fa_call = 0
    /\ fb_call = 0
    /\ iter = 0
    /\ ret = 0
    /\ \/ /\ start_jd \in WindowStarts
          /\ kpc = "scan"
          /\ fpc = "idle"
          /\ jd_start = 0
          /\ jd_end = 0
          /\ target_angle = 0
       \/ /\ start_jd = 0
          /\ kpc = "direct"
          /\ fpc = "call"
          /\ jd_start \in DirectStarts
          /\ jd_end \in {jd_start, jd_start + 2 * DayUnits}
          /\ target_angle \in DirectTargets \cup {opposite_target(jd_start)}

\* for day_offset in range(0, search_days+1): jd0 = start_jd + day_offset;
\* the call find_transition_between(jd0 - 1, jd0 + 1, start_angle)
ScanDay ==
    /\ kpc = "scan"
    /\ fpc = "idle"
    /\ LET jd0 == start_jd + day_offset * DayUnits
       IN  /\ jd_start' = jd0 - DayUnits
           /\ jd_end' = jd0 + DayUnits
    /\ target_angle' = start_angle
    /\ kpc' = "find_s"
    /\ fpc' = "call"
    /\ UNCHANGED <<start_jd, day_offset, s_candidate, e_candidate, window,
                   a, b, fa, fb, fa_call, fb_call, iter, ret>>
    /\ UNCHANGED <<deriveVars, timeVars, roundVars, sunVars>>

\* find_transition_between, app.py 139-146
EnterTransition ==
    /\ fpc = "call"
    /\ a' = jd_start
    /\ b' = jd_end
    /\ fa' = residual(jd_start, target_angle)
    /\ fb' = residual(jd_end, target_angle)
    /\ fa_call' = fa'
    /\ fb_call' = fb'
    /\ iter' = 0
    /\ IF below_1e_9(fa') THEN ret' = jd_start /\ fpc' = "returned"
       ELSE IF below_1e_9(fb') THEN ret' = jd_end /\ fpc' = "returned"
       ELSE ret' = ret /\ fpc' = "loop"
    /\ UNCHANGED <<start_jd, day_offset, s_candidate, e_candidate, window,
                   kpc, jd_start, jd_end, target_angle>>
    /\ UNCHANGED <<deriveVars, timeVars, roundVars, sunVars>>

\* One pass of the loop, app.py 147-159, and the return of line 160 when
\* the pass was the last one.  iter counts the passes that moved an end.
BisectStep ==
    /\ fpc = "loop"
    /\ iter < MaxIter
    /\ LET mid == midpoint(a, b)
           fm == residual(mid, target_angle)
       IN  IF below_1e_6(fm)
           THEN /\ ret' = mid
                /\ fpc' = "returned"
                /\ UNCHANGED <<a, b, fa, fb, iter>>
           ELSE /\ IF product_not_positive(fa, fm)
                   THEN b' = mid /\ fb' = fm /\ a' = a /\ fa' = fa
                   ELSE a' = mid /\ fa' = fm /\ b' = b /\ fb' = fb
                /\ iter' = iter + 1
                /\ IF within_tol(a', b') \/ iter' = MaxIter
                   THEN ret' = midpoint(a', b') /\ fpc' = "returned"
                   ELSE ret' = ret /\ fpc' = "loop"
    /\ UNCHANGED <<start_jd, day_offset, s_candidate, e_candidate, window,
                   kpc, jd_start, jd_end, target_angle, fa_call, fb_call>>
    /\ UNCHANGED <<deriveVars, timeVars, roundVars, sunVars>>

\* s_candidate is back; the call
\* find_transition_between(jd0 - 1, jd0 + 2, end_angle)
GotStartCandidate ==
    /\ kpc = "find_s"
    /\ fpc = "returned"
    /\ s_candidate' = ret
    /\ LET jd0 == start_jd + day_offset * DayUnits
       IN  /\ jd_start' = jd0 - DayUnits
           /\ jd_end' = jd0 + 2 * DayUnits
    /\ target_angle' = end_angle
    /\ kpc' = "find_e"
    /\ fpc' = "call"
    /\ UNCHANGED <<start_jd, day_offset, e_candidate, window,
                   a, b, fa, fb, fa_call, fb_call, iter, ret>>
    /\ UNCHANGED <<deriveVars, timeVars, roundVars, sunVars>>

\* e_candidate is back: return the pair when e_candidate > s_candidate
\* (a Julian Day is never 0, so both are truthy), else go on to the next
\* day, and return (None, None) after the last.
GotEndCandidate ==
    /\ kpc = "find_e"
    /\ fpc = "returned"
    /\ e_candidate' = ret
    /\ IF ret > s_candidate
       THEN /\ window' = [found |-> TRUE, s |-> s_candidate, e |-> ret]
            /\ kpc' = "returned"
            /\ day_offset' = day_offset
       ELSE IF day_offset < search_days
       THEN /\ window' = window
            /\ kpc' = "scan"
            /\ day_offset' = day_offset + 1
       ELSE /\ window' = NoWindow
            /\ kpc' = "returned"
            /\ day_offset' = day_offset
    /\ fpc' = "idle"
    /\ UNCHANGED <<start_jd, s_candidate, jd_start, jd_end, target_angle,
                   a, b, fa, fb, fa_call, fb_call, iter, ret>>
    /\ UNCHANGED <<deriveVars, timeVars, roundVars, sunVars>>

NextSolve ==
    \/ ScanDay
    \/ EnterTransition
    \/ BisectStep
    \/ GotStartCandidate
    \/ GotEndCandidate

SpecSolve == InitSolve /\ [][NextSolve]_vars

-----------------------------------------------------------------------------
C2_TithiIsFloorPlusOne ==
    runs > 0 =>
        /\ tithi_index = long_diff \div (12 * AngleRes) + 1
        /\ paksha = (IF tithi_index <= 15 THEN "Shukla Paksha"
                                          ELSE "Krishna Paksha")

\* C3: the karana index is floor(D/6) mod 60 + 1; 1, 58, 59, 60 are the fixed
\* karanas, 2..57 cycle through the movable table by (k - 2) mod 7, and over
\* a full sweep of the 60 segments each movable karana names exactly 8.
C3_KaranaTable ==
    runs > 0 =>
        /\ karana_index = ((long_diff \div (6 * AngleRes)) % 60) + 1
        /\ karana_index = 1 => karana_name = "Kimstughna"
        /\ karana_index = 58 => karana_name = "Shakuni"
        /\ karana_index = 59 => karana_name = "Chatushpada"
        /\ karana_index = 60 => karana_name = "Naga"
        /\ karana_index \in 2..57 =>
              karana_name = movable[((karana_index - 2) % 7) + 1]
        /\ runs = Circle =>
              /\ \A i \in 1..7 : Cardinality(karana_seen[movable[i]]) = 8
              /\ \A n \in {"Kimstughna", "Shakuni", "Chatushpada", "Naga"} :
                    Cardinality(karana_seen[n]) = 1

\* A finished sweep, ending on a movable karana.
C3_Witness ==
    /\ runs = Circle
    /\ karana_index \in 2..57
    /\ Cardinality(karana_seen["Vishti"]) = 8

\* C4: the round trip through the Julian Day gives back the civil moment to
\* within 1 second, on the same calendar day of the same month and year.
seconds_of(m) == m.hour * 3600 + m.minute * 60 + m.second

C4_RoundTrip ==
    rpc = "done" =>
        /\ dt_utc.year = moment.year
        /\ dt_utc.month = moment.month
        /\ dt_utc.day = moment.day
        /\ seconds_of(dt_utc) - seconds_of(moment) \in {-1, 0, 1}
        /\ dt_utc.hour \in 0..23
        /\ dt_utc.minute \in 0..59
        /\ dt_utc.second \in 0..59

\* A round trip of the first minute of a leap day, which comes back as
\* 00:00:59 of that day: the float nearest to 60/86400 lies below it.
C4_Witness ==
    /\ rpc = "done"
    /\ moment.month = 2 /\ moment.day = 29
    /\ moment.hour = 0 /\ moment.minute = 1 /\ moment.second = 0
    /\ dt_utc.minute = 0 /\ dt_utc.second = 59
    /\ dt_utc.day = 29

\* C5: when the arccos argument of the sunrise equation is outside [-1,1]
\* (polar day or night), get_sunrise_sunset gives a distinct PolarEvent
\* outcome, not numeric times and not an unhandled failure, and the
\* choghadiya and Rahu, Yamaganda and Gulika windows are reported unavailable.
polar_day_or_night ==
    ~acos_in_domain(acos_argument(lat,
        calc_decl_deg(calc_decl(calc_gamma(sun_date.year, sun_date.month,
                                           sun_date.day)))))

C5_PolarEventSignalled ==
    (sun_raised # "pending" /\ polar_day_or_night) =>
        /\ sun_raised = "PolarEvent"
        /\ muhurta = "unavailable"

\* C6: with a crossing of target_angle inside the bracket (the wrapped
\* residual goes from negative at jd_start to positive at jd_end),
\* find_transition_between returns a Julian Day at which the separation is
\* within 1e-4 degrees of target_angle.
crossing_bracketed == fa_call < 0 /\ fb_call > 0

C6_WithinTenThousandth ==
    (fpc = "returned" /\ crossing_bracketed) =>
        abs(residual(ret, target_angle)) <= 100

\* C6 as amended: the Julian Day returned lies in a bracket less than 0.5
\* minutes wide whose ends have residuals of opposite sign, so it is within
\* 0.25 minutes of the crossing, and the separation there is within 0.0025
\* degrees of target_angle (or within 1e-6 when the loop met such a point).
C6_WithinQuarterMinute ==
    (fpc = "returned" /\ crossing_bracketed) =>
        /\ abs(residual(ret, target_angle)) <= 2500
        /\ \/ abs(residual(ret, target_angle)) < 1
           \/ /\ fa < 0 /\ fb > 0
              /\ within_tol(a, b)
              /\ a <= ret /\ ret <= b
              /\ 2 * (ret - a) <= b - a + 1

\* A return more than 1e-4 degrees, and less than 0.0025 degrees, from the
\* target, after the bracket closed on a crossing.
C6_Witness ==
    /\ fpc = "returned"
    /\ crossing_bracketed
    /\ within_tol(a, b)
    /\ iter > 10
    /\ abs(residual(ret, target_angle)) > 100
    /\ abs(residual(ret, target_angle)) <= 2500

\* C7: a window (s, e) that find_kalashtami_window returns has the
\* separation at 264 degrees at s and at 276 degrees at e, each within the
\* tolerance of the solver, and s < e; a day whose brackets hold no such
\* crossing yields no window.
C7_WindowIsKrishnaAshtami ==
    (kpc = "returned" /\ window.found) =>
        /\ abs(residual(window.s, start_angle)) <= 2500
        /\ abs(residual(window.e, end_angle)) <= 2500
        /\ window.s < window.e

C9_SamvatIsInputYear ==
    tpc = "done" => samvat = input_date.year - 78

\* C10: the vaara index is in 0..6, has period 7 in the Julian Day, moves on
\* by one a day, and between one minute and the next it changes exactly when
\* the Julian Day passes a fractional part of 0.5 (midnight UT).
C10_Vaara ==
    tpc = "done" =>
        LET jd_next == greg_to_jd(year, month, day, ut_hour, min_local + 1, 0)
            ut_minute == (ut_hour + min_local) % 1440
        IN  /\ wd \in 0..6
            /\ wd + 1 \in DOMAIN vaara_names
            /\ calc_wd(jd_plus_days(jd, 7)) = wd
            /\ calc_wd(jd_plus_days(jd, 1)) = (wd + 1) % 7
            /\ (calc_wd(jd_next) # wd) <=> (ut_minute = 1439)
            /\ calc_wd(jd_next) \in {wd, (wd + 1) % 7}

\* A computation one minute before midnight UT, reached through a rollover
\* of the date: the next minute belongs to the next vaara.
C10_Witness ==
    /\ tpc = "done"
    /\ (ut_hour + min_local) % 1440 = 1439
    /\ calc_wd(greg_to_jd(year, month, day, ut_hour, min_local + 1, 0))
          = (wd + 1) % 7
    /\ day # input_date.day

\* The minutes from Julian Day j2 to Julian Day j1, both at a whole minute:
\* a whole second t has the day fraction round_f31(t), and
\* round_f31(t) \div 24855 = t for t < 2 * 86400.
jd_minutes_between(j1, j2) ==
    ((j1.day2 - j2.day2) \div 2) * 1440
        + (j1.f31 \div 24855) \div 60 - (j2.f31 \div 24855) \div 60

\* C11: the UT hour the conversion yields is in [0,24); the date has moved
\* back by one day when the raw UT hour was negative, forward by one day when
\* it was 24 or more, and is the input date otherwise; and the Julian Day
\* passed on is the Julian Day of the local wall-clock reading minus the
\* offset.
C11_UtConversion ==
    tpc = "done" =>
        LET raw == raw_ut_hour(hour_local, utc_offset)
            jd_local == greg_to_jd(input_date.year, input_date.month,
                                   input_date.day, hour_local * 60,
                                   min_local, 0)
            day_in == greg_to_jd(input_date.year, input_date.month,
                                 input_date.day, 0, 0, 0)
            day_ut == greg_to_jd(year, month, day, 0, 0, 0)
        IN  /\ ut_hour \in 0..1439
            /\ day_ut.day2 - day_in.day2 =
                  (IF raw < 0 THEN -2 ELSE IF raw >= 1440 THEN 2 ELSE 0)
            /\ raw \in 0..1439 =>
                  /\ year = input_date.year
                  /\ month = input_date.month
                  /\ day = input_date.day
            /\ jd_minutes_between(jd, jd_local) = -utc_offset

\* A conversion at a quarter-hour offset that rolls the date back over a
\* year boundary, with a UT hour and minute that together pass 24 hours.
C11_Witness ==
    /\ tpc = "done"
    /\ utc_offset = 345
    /\ raw_ut_hour(hour_local, utc_offset) < 0
    /\ ut_hour + min_local >= 1440
    /\ year = input_date.year - 1
    /\ jd_minutes_between(jd,
           greg_to_jd(input_date.year, input_date.month, input_date.day,
                      hour_local * 60, min_local, 0)) = -345

\* C12: the residuals find_transition_between computes at the ends of its
\* bracket lie in (-180, 180], and a separation exactly 180 degrees ahead of
\* target_angle has the residual +180.
C12_ResidualHalfOpenAbove ==
    fpc \in {"loop", "returned"} =>
        /\ -180 * 1000000 < fa_call /\ fa_call <= 180 * 1000000
        /\ -180 * 1000000 < fb_call /\ fb_call <= 180 * 1000000
        /\ mod360_6(long_diff_at_jd(jd_start) - target_angle) = 180 * 1000000
              => fa_call = 180 * 1000000

====
